---- MODULE Spec2Model ----
(***************************************************************************)
(* A model of the Landmarker page controller (src/gui.py), the map         *)
(* renderer (src/mapping.py) and the review store (src/firestore.py).      *)
(*                                                                         *)
(* Units.  A raw recognition score is an integer number of                 *)
(* 1/(10000*Fine) parts, so 1.0 is 10000*Fine.  The confidence the map     *)
(* renderer parses back out of the display string has two decimals of a    *)
(* percentage, so it is an integer number of 1/10000 parts.  Latitudes,    *)
(* longitudes and the accuracy range are integer hundredths of a degree.   *)
(* Strings that the code takes apart (landmark names, the "lon/lat" text)  *)
(* are sequences of one-character strings.                                 *)
(***************************************************************************)
EXTENDS Integers, Sequences, FiniteSets, TLC

\* ------------------------------------------------------------------ bounds
MaxLandmarks == 2
MaxReviews == 2
MaxSubmitted == 1
MaxCached == 1
Fine == 10
MaxReruns == 2
MaxFragments == 3

\* ------------------------------------------------------- program constants
MARKER_LOW == 35
MARKER_HIGH == 65
HEAT_LOW == 35
HEAT_HIGH == 65
ROUND_DIGITS == 2
ACCURACY_RANGE == 10
FUZZ_THRESHOLD == 80
SLIDER_MIN == 1
SLIDER_MAX == 10
SLIDER_DEFAULT == 5

\* A Python name that is not bound yet.
Unbound == "unbound"
\* Python's None and True, as the values of a session flag.
None == "None"
PyTrue == "True"
\* What a review query returns: None, or a list of records.
NoReviews == [none |-> TRUE, list |-> <<>>]
ReviewList(records) == [none |-> FALSE, list |-> records]
\* Python's truth value of such a result.
Truthy(result) == ~result.none /\ result.list # <<>>

Last(seq) == seq[Len(seq)]
Front(seq) == SubSeq(seq, 1, Len(seq) - 1)
Max(a, b) == IF a >= b THEN a ELSE b
Abs(a) == IF a < 0 THEN -a ELSE a

RECURSIVE Pow10(_)
Pow10(n) == IF n = 0 THEN 1 ELSE 10 * Pow10(n - 1)

\* Units of the parsed confidence per percent: round(x, 2) keeps 10^2 of them.
PerPercent == Pow10(ROUND_DIGITS)
\* The raw score 1.0.
FullScore == 100 * PerPercent * Fine

\* ---------------------------------------------------- confidence display
\* round(landmark.score * 100, 2): the nearest multiple of 0.01 percent.  On
\* an exact decimal tie the binary value of the float decides, so both
\* neighbours are possible outcomes.
RoundChoices(score) ==
    LET q == score \div Fine
        rem == score % Fine
    IN  IF 2 * rem < Fine THEN {q}
        ELSE IF 2 * rem > Fine THEN {q + 1}
        ELSE {q, q + 1}

\* "Matched: " + str(round(landmark.score * 100, 2)) + "%"
ConfidenceText(rounded) == <<"Matched", ": ", rounded, "%">>
ConfidenceTexts(score) == {ConfidenceText(r) : r \in RoundChoices(score)}

\* float(confidence.split(": ")[1].strip("%")) / 100, in 1/10000 parts.
ParseConfidence(confidence) == confidence[3]

\* ------------------------------------------------------- marker bucketing
\* get_marker_icon with the thresholds of the legacy revision (0.50, 0.80).
get_marker_icon_legacy(confidence_score, icon_pin, icon_star, icon_x) ==
    IF confidence_score < 50 * PerPercent THEN icon_x
    ELSE IF confidence_score < 80 * PerPercent THEN icon_pin
    ELSE icon_star

get_marker_icon(confidence_score, icon_pin, icon_star, icon_x) ==
    IF confidence_score < MARKER_LOW * PerPercent THEN icon_x
    ELSE IF confidence_score < MARKER_HIGH * PerPercent THEN icon_pin
    ELSE icon_star

\* get_marker_color with the boundaries on the lower side.
get_marker_color_inclusive(confidence_score) ==
    IF confidence_score <= MARKER_LOW * PerPercent THEN "red"
    ELSE IF confidence_score <= MARKER_HIGH * PerPercent THEN "yellow"
    ELSE "green"

get_marker_color(confidence_score) ==
    IF confidence_score < MARKER_LOW * PerPercent THEN "red"
    ELSE IF confidence_score < MARKER_HIGH * PerPercent THEN "yellow"
    ELSE "green"

\* The color expression of add_heatmap, on the raw score.
heatmap_color(score) ==
    IF score < HEAT_LOW * PerPercent * Fine THEN "red"
    ELSE IF score < HEAT_HIGH * PerPercent * Fine THEN "yellow"
    ELSE "green"

\* FoliumMap.__init__
NewMap ==
    [max_score |-> 0,
     max_score_location |-> <<0, 0>>,
     location |-> <<0, 0>>,
     markers |-> <<>>,
     circles |-> <<>>,
     layers |-> <<>>]

\* FoliumMap.add_marker on map m
add_marker(m, lat_, lon_, landmark_name, confidence) ==
    LET confidence_score == ParseConfidence(confidence)
        better == confidence_score > m.max_score
        max_score_ == IF better THEN confidence_score ELSE m.max_score
        max_loc == IF better THEN <<lat_, lon_>> ELSE m.max_score_location
        marker_color == get_marker_color(confidence_score)
        icon_pin == [glyph |-> "pin", color |-> marker_color]
        icon_star == [glyph |-> "star", color |-> marker_color]
        icon_x == [glyph |-> "x", color |-> marker_color]
        icon == get_marker_icon(confidence_score, icon_pin, icon_star, icon_x)
        marker == [location |-> <<lat_, lon_>>,
                   popup |-> <<landmark_name, confidence>>,
                   icon |-> icon]
    IN  [m EXCEPT !.max_score = max_score_,
                  !.max_score_location = max_loc,
                  !.location = max_loc,
                  !.markers = Append(@, marker)]

\* FoliumMap.add_heatmap on map m
add_heatmap(m, lat_, lon_, score) ==
    [m EXCEPT !.circles = Append(@, [location |-> <<lat_, lon_>>,
                                      color |-> heatmap_color(score),
                                      fill_color |-> heatmap_color(score)])]

\* ------------------------------------------------------------- number text
Digits == <<"0", "1", "2", "3", "4", "5", "6", "7", "8", "9">>
IsDigit(c) == \E d \in 1..10 : Digits[d] = c
DigitValue(c) == (CHOOSE d \in 1..10 : Digits[d] = c) - 1

RECURSIVE NatText(_)
NatText(n) == IF n < 10 THEN <<Digits[n + 1]>>
              ELSE NatText(n \div 10) \o <<Digits[(n % 10) + 1]>>

\* The text Python's f"{x}" gives for the number of v hundredths.
NumText(v) ==
    (IF v < 0 THEN <<"-">> ELSE <<>>)
    \o NatText(Abs(v) \div 100)
    \o <<".">>
    \o <<Digits[((Abs(v) \div 10) % 10) + 1], Digits[(Abs(v) % 10) + 1]>>

\* f"{lon}/{lat}" (src/gui.py:453)
CoordText(lon_, lat_) == NumText(lon_) \o <<"/">> \o NumText(lat_)

\* text.split(sep): the pieces between the separators.
RECURSIVE Split(_, _)
Split(text, sep) ==
    IF \A k \in 1..Len(text) : text[k] # sep THEN <<text>>
    ELSE LET k == CHOOSE j \in 1..Len(text) :
                      text[j] = sep /\ \A h \in 1..(j - 1) : text[h] # sep
         IN  <<SubSeq(text, 1, k - 1)>> \o Split(SubSeq(text, k + 1, Len(text)), sep)

RECURSIVE DigitsValue(_)
DigitsValue(ds) == IF ds = <<>> THEN 0
                   ELSE 10 * DigitsValue(SubSeq(ds, 1, Len(ds) - 1))
                        + DigitValue(ds[Len(ds)])

\* float(text): the text is an optional sign, digits, and optionally a point
\* and up to two more digits; anything else raises ValueError.
FloatOk(text) ==
    LET body == IF text # <<>> /\ text[1] = "-" THEN Tail(text) ELSE text
        parts == Split(body, ".")
    IN  /\ Len(parts) \in {1, 2}
        /\ parts[1] # <<>>
        /\ \A k \in 1..Len(parts[1]) : IsDigit(parts[1][k])
        /\ Len(parts) = 2 =>
              /\ Len(parts[2]) <= 2
              /\ \A k \in 1..Len(parts[2]) : IsDigit(parts[2][k])

\* float(text) in hundredths, for a text FloatOk accepts.
FloatValue(text) ==
    LET neg == text[1] = "-"
        body == IF neg THEN Tail(text) ELSE text
        parts == Split(body, ".")
        frac == IF Len(parts) = 2 THEN parts[2] ELSE <<>>
        fracv == IF Len(frac) = 0 THEN 0
                 ELSE IF Len(frac) = 1 THEN 10 * DigitsValue(frac)
                 ELSE DigitsValue(frac)
        mag == 100 * DigitsValue(parts[1]) + fracv
    IN  IF neg THEN -mag ELSE mag

\* ------------------------------------------------------------- fuzz.ratio
\* The number of matched characters of the two strings.  For the names of
\* this model difflib's matching blocks and the Levenshtein edit operations
\* find the same number: the length of the longest common subsequence.
RECURSIVE Matched(_, _)
Matched(s1, s2) ==
    IF s1 = <<>> \/ s2 = <<>> THEN 0
    ELSE IF Head(s1) = Head(s2) THEN 1 + Matched(Tail(s1), Tail(s2))
    ELSE Max(Matched(Tail(s1), s2), Matched(s1, Tail(s2)))

\* utils.intr: int(round(num / den)), Python rounding halves to even.
Intr(num, den) ==
    LET q == num \div den
        rem == num % den
    IN  IF 2 * rem < den THEN q
        ELSE IF 2 * rem > den THEN q + 1
        ELSE IF q % 2 = 0 THEN q ELSE q + 1

\* fuzzywuzzy.fuzz.ratio: 100 for equal strings, 0 when one is empty,
\* otherwise 100 * 2 * matched / (len(s1) + len(s2)) rounded.
fuzz_ratio(s1, s2) ==
    IF s1 = s2 THEN 100
    ELSE IF Len(s1) = 0 \/ Len(s2) = 0 THEN 0
    ELSE Intr(100 * 2 * Matched(s1, s2), Len(s1) + Len(s2))

\* ------------------------------------------------------------ review store
\* The record _create_review writes.
ReviewData(review, landmark, coordinates, score, username) ==
    [Username |-> username,
     Landmark |-> landmark,
     Coordinates |-> coordinates,
     Score10 |-> score,
     Review |-> review]

\* _create_review writing to a document named after the landmark: a
\* landmark's earlier review is replaced.
create_review_by_landmark(reviews_ref, review, landmark, coordinates, score, username, position, write_ok) ==
    LET Others(d) == d.Landmark # landmark
        kept == SelectSeq(reviews_ref, Others)
    IN  IF write_ok
        THEN <<ReviewData(review, landmark, coordinates, score, username)>> \o kept
        ELSE reviews_ref

\* _create_review writing to document(username), as its docstring has it
\* ("Also used as the document ID"): a user's earlier review is replaced.
create_review_by_username(reviews_ref, review, landmark, coordinates, score, username, position, write_ok) ==
    LET Others(d) == d.Username # username
        kept == SelectSeq(reviews_ref, Others)
    IN  IF write_ok
        THEN <<ReviewData(review, landmark, coordinates, score, username)>> \o kept
        ELSE reviews_ref

\* Firestore._create_review: reviews_ref.document().set(review_data) adds a
\* document under a fresh automatic id, so its place in the scan order
\* (position) is arbitrary; a failed write is reported (code 104) and
\* swallowed.
create_review(reviews_ref, review, landmark, coordinates, score, username, position, write_ok) ==
    IF write_ok
    THEN SubSeq(reviews_ref, 1, position - 1)
         \o <<ReviewData(review, landmark, coordinates, score, username)>>
         \o SubSeq(reviews_ref, position, Len(reviews_ref))
    ELSE reviews_ref

\* The condition of _get_reviews_for_landmark raises for this record:
\* Python evaluates the four comparisons left to right and stops at the
\* first false one.
ConditionRaises(review_data, long, lat_, accuracy_range) ==
    LET pieces == Split(review_data.Coordinates, "/")
    IN  \/ ~FloatOk(pieces[1])
        \/ /\ FloatValue(pieces[1]) <= long + accuracy_range
           /\ FloatValue(pieces[1]) >= long - accuracy_range
           /\ (Len(pieces) < 2 \/ ~FloatOk(pieces[2]))

\* The condition with exclusive bounds.
ReviewCondition_exclusive(review_data, long, lat_, accuracy_range, landmark_name) ==
    LET pieces == Split(review_data.Coordinates, "/")
    IN  \/ /\ FloatValue(pieces[1]) < long + accuracy_range
           /\ FloatValue(pieces[1]) > long - accuracy_range
           /\ FloatValue(pieces[2]) < lat_ + accuracy_range
           /\ FloatValue(pieces[2]) > lat_ - accuracy_range
        \/ fuzz_ratio(review_data.Landmark, landmark_name) >= FUZZ_THRESHOLD

\* The condition asking for the place and the name.
ReviewCondition_both(review_data, long, lat_, accuracy_range, landmark_name) ==
    LET pieces == Split(review_data.Coordinates, "/")
    IN  /\ FloatValue(pieces[1]) <= long + accuracy_range
        /\ FloatValue(pieces[1]) >= long - accuracy_range
        /\ FloatValue(pieces[2]) <= lat_ + accuracy_range
        /\ FloatValue(pieces[2]) >= lat_ - accuracy_range
        /\ fuzz_ratio(review_data.Landmark, landmark_name) >= FUZZ_THRESHOLD

\* The condition of _get_reviews_for_landmark for a record it does not
\* raise on.
ReviewCondition(review_data, long, lat_, accuracy_range, landmark_name) ==
    LET pieces == Split(review_data.Coordinates, "/")
    IN  \/ /\ FloatValue(pieces[1]) <= long + accuracy_range
           /\ FloatValue(pieces[1]) >= long - accuracy_range
           /\ FloatValue(pieces[2]) <= lat_ + accuracy_range
           /\ FloatValue(pieces[2]) >= lat_ - accuracy_range
        \/ fuzz_ratio(review_data.Landmark, landmark_name) >= FUZZ_THRESHOLD

\* _get_reviews_for_landmark whose except branch hands back the reviews
\* collected before the read failed.
get_reviews_for_landmark_partial(reviews_ref, long, lat_, accuracy_range, landmark_name, stream_ok) ==
    IF \E k \in 1..Len(reviews_ref) :
            ConditionRaises(reviews_ref[k], long, lat_, accuracy_range)
    THEN NoReviews
    ELSE LET Hit(d) == ReviewCondition(d, long, lat_, accuracy_range, landmark_name)
             reviews_ == SelectSeq(reviews_ref, Hit)
         IN  IF reviews_ # <<>> THEN ReviewList(reviews_) ELSE NoReviews

\* Firestore._get_reviews_for_landmark over the documents in scan order;
\* stream_ok is false when reading the collection fails.
get_reviews_for_landmark(reviews_ref, long, lat_, accuracy_range, landmark_name, stream_ok) ==
    IF ~stream_ok THEN NoReviews
    ELSE IF \E k \in 1..Len(reviews_ref) :
                ConditionRaises(reviews_ref[k], long, lat_, accuracy_range)
    THEN NoReviews
    ELSE LET Hit(d) == ReviewCondition(d, long, lat_, accuracy_range, landmark_name)
             reviews_ == SelectSeq(reviews_ref, Hit)
         IN  IF reviews_ # <<>> THEN ReviewList(reviews_) ELSE NoReviews

\* ------------------------------------------------------------------ inputs
NameAB == <<"a", "b">>
NameABC == <<"a", "b", "c">>
NameXY == <<"x", "y">>

\* lat_lng values as <<latitude, longitude>>, in hundredths of a degree.
PlaceA == <<4900, 4000>>
PlaceB == <<4903, 4005>>
PlaceC == <<5000, 4150>>

Landmark(description, score, locations) ==
    [description |-> description, score |-> score, locations |-> locations]

\* The landmark annotations a recognition response is made of: two equal
\* scores, two scores that differ by less than the display rounds to, a
\* score just under a threshold, and a score of 0.
Annotations ==
    {Landmark(NameAB, 90 * PerPercent * Fine, <<PlaceA, PlaceC>>),
     Landmark(NameABC, 90 * PerPercent * Fine, <<PlaceB>>),
     Landmark(NameXY, 90 * PerPercent * Fine + 1, <<PlaceC>>),
     Landmark(NameXY, MARKER_LOW * PerPercent * Fine - 4, <<PlaceC>>),
     Landmark(NameAB, 0, <<PlaceA>>)}

RECURSIVE SeqsUpTo(_, _)
SeqsUpTo(S, n) ==
    IF n = 0 THEN {<<>>}
    ELSE LET shorter == SeqsUpTo(S, n - 1)
         IN  shorter \cup {Append(s, x) : s \in shorter, x \in S}

Responses == SeqsUpTo(Annotations, MaxLandmarks)

\* _get_detail_from_address letting a later key override an earlier one.
RECURSIVE get_detail_from_address_last(_, _)
get_detail_from_address_last(address, keys) ==
    IF keys = <<>> THEN ""
    ELSE IF Last(keys) \in DOMAIN address THEN address[Last(keys)]
    ELSE get_detail_from_address_last(address, Front(keys))

\* FoliumMap._get_detail_from_address: the value of the first of the keys
\* the address holds, "" when it holds none of them.
RECURSIVE get_detail_from_address(_, _)
get_detail_from_address(address, keys) ==
    IF keys = <<>> THEN ""
    ELSE IF Head(keys) \in DOMAIN address THEN address[Head(keys)]
    ELSE get_detail_from_address(address, Tail(keys))

city_keys == <<"city", "town", "village", "suburb">>
country_keys == <<"country", "state", "county">>

\* FoliumMap.get_location_details once the lookup has answered: <<city,
\* country>> of location.raw["address"].
get_location_details(address) ==
    <<get_detail_from_address(address, city_keys),
      get_detail_from_address(address, country_keys)>>

\* The addresses the reverse geocoder answers a pass with.
PREVIOUS_CITY_COUNTRY == <<"Kovser Doner", "28 May">>
Addresses ==
    {("town" :> "Baku") @@ ("suburb" :> "Sabail") @@ ("state" :> "Azerbaijan")
        @@ ("county" :> "Absheron"),
     ("road" :> "Neftchilar") @@ ("country" :> "Azerbaijan"),
     ("city" :> "Baku") @@ ("road" :> "Neftchilar"),
     ("city" :> PREVIOUS_CITY_COUNTRY[1]) @@ ("country" :> PREVIOUS_CITY_COUNTRY[2])}

\* What the user types into the review form.
Usernames == {"", "user"}
ReviewTexts == {"", "nice"}
FormScores == {SLIDER_MIN, SLIDER_MAX}

\* ------------------------------------------------------------------- state
VARIABLES
    pc,                          \* where the render pass stands
    uploaded_file,               \* TRUE when the upload widget holds an image
    landmarks,                   \* the recognition response
    i,                           \* the next candidate of the for loop
    lat, lon,                    \* the locals lat and lon of main
    landmark_most_matched,
    landmark_most_matched_score,
    lat_most_matched,
    lon_most_matched,
    fm,                          \* the FoliumMap of this pass
    map_html,                    \* the serialized map offered for download
    satellite_mode,
    stream_mode,                 \* the "Stream Summary" toggle of this pass
    overall_score,               \* the number shown after "Overall Score:"
    summary_stream,              \* st.session_state["summary_stream"]
    city, country,
    maps_url,                    \* the coordinate in the "Open Google Maps" link
    reviews,                     \* what get_review_for_landmark returned
    docs,                        \* the user_reviews collection, in scan order
    summary_cache,               \* prompts st.cache_data holds a summary for
    shown,                       \* the messages this pass has rendered
    calls,                       \* the external calls this pass has made
    written,                     \* history: the records successfully written
    geocode_reruns,              \* history: the script runs in a row that a
                                 \* failed reverse lookup has restarted
    probe                        \* a function applied alone: argument and results

passVars == <<landmarks, i, lat, lon, landmark_most_matched,
              landmark_most_matched_score, lat_most_matched, lon_most_matched,
              fm, map_html, satellite_mode, stream_mode, overall_score, city, country, maps_url, reviews,
              shown, calls>>
vars == <<pc, uploaded_file, summary_stream, docs, summary_cache, written,
          geocode_reruns, probe, passVars>>

InitSession ==
    /\ pc = "idle"
    /\ uploaded_file = FALSE
    /\ landmarks = Unbound
    /\ i = 1
    /\ lat = Unbound
    /\ lon = Unbound
    /\ landmark_most_matched = <<>>
    /\ landmark_most_matched_score = 0
    /\ lat_most_matched = 0
    /\ lon_most_matched = 0
    /\ fm = NewMap
    /\ map_html = Unbound
    /\ satellite_mode = Unbound
    /\ stream_mode = Unbound
    /\ overall_score = Unbound
    /\ summary_stream = None
    /\ city = Unbound
    /\ country = Unbound
    /\ maps_url = Unbound
    /\ reviews = Unbound
    /\ docs = <<>>
    /\ summary_cache = {}
    /\ shown = {}
    /\ calls = <<>>
    /\ written = {}
    /\ geocode_reruns = 0

\* The state after construction: nothing uploaded, an empty collection.
Init ==
    /\ InitSession
    /\ probe = Unbound

\* st.rerun(): the script is run again without any interaction, named after
\* the place that asked for it (src/mapping.py:163, src/mapping.py:372,
\* src/gui.py:458).
Reruns == {"rerun_geocode", "rerun_satellite", "rerun_submitted"}

\* st.stop() after an error message: the pass is abandoned.
Stop(message) ==
    /\ shown' = shown \cup {message}
    /\ pc' = "stopped"

\* Landmarker() and main up to the recognition call (src/gui.py:29-218): a
\* script run builds a fresh map and fresh locals.  A run follows a user
\* interaction, or st.rerun(), which keeps the uploaded file.
BeginPass ==
    /\ pc \in {"idle", "stopped"} \cup Reruns
    /\ \E file \in BOOLEAN :
          /\ pc \in Reruns => file = uploaded_file
          /\ uploaded_file' = file
          /\ pc' = IF file THEN "recognize" ELSE "idle"
          /\ shown' = IF file THEN {} ELSE {"instructions"}
    /\ landmarks' = Unbound
    /\ i' = 1
    /\ lat' = Unbound
    /\ lon' = Unbound
    /\ landmark_most_matched' = <<>>
    /\ landmark_most_matched_score' = 0
    /\ lat_most_matched' = 0
    /\ lon_most_matched' = 0
    /\ fm' = NewMap
    /\ map_html' = Unbound
    /\ satellite_mode' = Unbound
    /\ stream_mode' = Unbound
    /\ overall_score' = Unbound
    /\ city' = Unbound
    /\ country' = Unbound
    /\ maps_url' = Unbound
    /\ reviews' = Unbound
    /\ calls' = <<>>
    /\ geocode_reruns' = IF pc = "rerun_geocode" THEN geocode_reruns ELSE 0
    /\ UNCHANGED <<summary_stream, docs, summary_cache, written, probe>>

\* landmarks = gc.find_landmark(uploaded_file) (src/gui.py:221)
FindLandmark ==
    /\ pc = "recognize"
    /\ \/ /\ calls' = Append(calls, [service |-> "recognize", ok |-> FALSE])
          /\ Stop("0x004")
          /\ UNCHANGED landmarks
       \/ /\ calls' = Append(calls, [service |-> "recognize", ok |-> TRUE])
          /\ landmarks' \in Responses
          /\ pc' = "loop"
          /\ UNCHANGED shown
    /\ UNCHANGED <<written, probe, geocode_reruns, uploaded_file, i, lat, lon, landmark_most_matched,
                   landmark_most_matched_score, lat_most_matched,
                   lon_most_matched, fm, map_html, satellite_mode, stream_mode, overall_score,
                   summary_stream, city, country, maps_url, reviews, docs,
                   summary_cache>>

\* A loop step that places the candidate at the last of its coordinates.
LoopStepLastLocation ==
    /\ pc = "loop"
    /\ i <= Len(landmarks)
    /\ LET landmark == landmarks[i]
           landmark_name == landmark.description
           lat_ == Last(landmark.locations)[1]
           lon_ == Last(landmark.locations)[2]
           better == landmark.score > landmark_most_matched_score
       IN  /\ \E confidence \in ConfidenceTexts(landmark.score) :
                 fm' = add_heatmap(add_marker(fm, lat_, lon_, landmark_name, confidence),
                                   lat_, lon_, landmark.score)
           /\ lat' = lat_
           /\ lon' = lon_
           /\ landmark_most_matched_score' =
                 IF better THEN landmark.score ELSE landmark_most_matched_score
           /\ landmark_most_matched' =
                 IF better THEN landmark_name ELSE landmark_most_matched
           /\ lat_most_matched' = IF better THEN lat_ ELSE lat_most_matched
           /\ lon_most_matched' = IF better THEN lon_ ELSE lon_most_matched
    /\ i' = i + 1
    /\ UNCHANGED <<written, probe, geocode_reruns, pc, uploaded_file, landmarks, map_html, satellite_mode, stream_mode, overall_score,
                   summary_stream, city, country, maps_url, reviews, docs,
                   summary_cache, shown, calls>>

\* One turn of the candidate loop (src/gui.py:222-234).
LoopStep ==
    /\ pc = "loop"
    /\ i <= Len(landmarks)
    /\ LET landmark == landmarks[i]
           landmark_name == landmark.description
           lat_ == landmark.locations[1][1]
           lon_ == landmark.locations[1][2]
           better == landmark.score > landmark_most_matched_score
       IN  /\ \E confidence \in ConfidenceTexts(landmark.score) :
                 fm' = add_heatmap(add_marker(fm, lat_, lon_, landmark_name, confidence),
                                   lat_, lon_, landmark.score)
           /\ lat' = lat_
           /\ lon' = lon_
           /\ landmark_most_matched_score' =
                 IF better THEN landmark.score ELSE landmark_most_matched_score
           /\ landmark_most_matched' =
                 IF better THEN landmark_name ELSE landmark_most_matched
           /\ lat_most_matched' = IF better THEN lat_ ELSE lat_most_matched
           /\ lon_most_matched' = IF better THEN lon_ ELSE lon_most_matched
    /\ i' = i + 1
    /\ UNCHANGED <<written, probe, geocode_reruns, pc, uploaded_file, landmarks, map_html, satellite_mode, stream_mode, overall_score,
                   summary_stream, city, country, maps_url, reviews, docs,
                   summary_cache, shown, calls>>

\* After the loop the map is serialized and fitted to its markers
\* (src/gui.py:236-267); a failure to serialize ends the pass (0x014).
ConvertMap ==
    /\ pc = "loop"
    /\ i > Len(landmarks)
    /\ \/ /\ map_html' = fm
          /\ pc' = "settings"
          /\ UNCHANGED shown
       \/ /\ Stop("0x014")
          /\ UNCHANGED map_html
    /\ UNCHANGED <<written, probe, geocode_reruns, uploaded_file, landmarks, i, lat, lon, landmark_most_matched,
                   landmark_most_matched_score, lat_most_matched,
                   lon_most_matched, fm, satellite_mode, stream_mode, overall_score, summary_stream, city,
                   country, maps_url, reviews, docs, summary_cache, calls>>

\* FoliumMap.satalite_map: the tile layer is added, or the failure makes the
\* script run again (try_count_2 is a local that starts at 0 on every call,
\* so the branch that stops is never taken).
satalite_map(m, layer_ok) ==
    IF layer_ok THEN [m EXCEPT !.layers = Append(@, "Esri Satellite")] ELSE m

\* The settings and what follows them entered without asking whether any
\* landmark was found.
SettingsUnguarded ==
    /\ pc = "settings"
    /\ \E satellite \in BOOLEAN, stream \in BOOLEAN, layer_ok \in BOOLEAN :
          /\ satellite_mode' = satellite
          /\ stream_mode' = stream
          /\ summary_stream' = IF stream THEN PyTrue ELSE None
          /\ fm' = IF satellite THEN satalite_map(fm, layer_ok) ELSE fm
          /\ pc' = IF satellite /\ ~layer_ok THEN "rerun_satellite" ELSE "locate"
    /\ UNCHANGED <<written, probe, geocode_reruns, uploaded_file, landmarks, i, lat, lon,
                   landmark_most_matched, landmark_most_matched_score,
                   lat_most_matched, lon_most_matched, map_html, city, country,
                   maps_url, reviews, docs, summary_cache, shown, calls,
                   overall_score>>

\* Settings that serialize the map again once the tile layer is on it.
SettingsReserialize ==
    /\ pc = "settings"
    /\ landmarks # <<>>
    /\ \E satellite \in BOOLEAN, stream \in BOOLEAN, layer_ok \in BOOLEAN :
          /\ satellite_mode' = satellite
          /\ stream_mode' = stream
          /\ summary_stream' = IF stream THEN PyTrue ELSE None
          /\ fm' = IF satellite THEN satalite_map(fm, layer_ok) ELSE fm
          /\ map_html' = fm'
          /\ pc' = IF satellite /\ ~layer_ok THEN "rerun_satellite" ELSE "locate"
    /\ UNCHANGED <<written, probe, geocode_reruns, uploaded_file, landmarks, i, lat, lon, landmark_most_matched,
                   landmark_most_matched_score, lat_most_matched,
                   lon_most_matched, city, country, maps_url,
                   reviews, docs, summary_cache, shown, calls,
                   overall_score>>

\* Settings that only ever set the session flag: a toggle switched off leaves
\* the flag as the earlier pass left it.
SettingsSticky ==
    /\ pc = "settings"
    /\ landmarks # <<>>
    /\ \E satellite \in BOOLEAN, stream \in BOOLEAN, layer_ok \in BOOLEAN :
          /\ satellite_mode' = satellite
          /\ stream_mode' = stream
          /\ summary_stream' = IF stream THEN PyTrue ELSE summary_stream
          /\ fm' = IF satellite THEN satalite_map(fm, layer_ok) ELSE fm
          /\ pc' = IF satellite /\ ~layer_ok THEN "rerun_satellite" ELSE "locate"
    /\ UNCHANGED <<written, probe, geocode_reruns, uploaded_file, landmarks, i, lat, lon, landmark_most_matched,
                   landmark_most_matched_score, lat_most_matched,
                   lon_most_matched, map_html, city, country, maps_url,
                   reviews, docs, summary_cache, shown, calls,
                   overall_score>>

\* The settings toggles when landmarks were found (src/gui.py:269-309): the
\* session flag is written from the "Stream Summary" toggle on every pass
\* (src/gui.py:304-307).
Settings ==
    /\ pc = "settings"
    /\ landmarks # <<>>
    /\ \E satellite \in BOOLEAN, stream \in BOOLEAN, layer_ok \in BOOLEAN :
          /\ satellite_mode' = satellite
          /\ stream_mode' = stream
          /\ summary_stream' = IF stream THEN PyTrue ELSE None
          /\ fm' = IF satellite THEN satalite_map(fm, layer_ok) ELSE fm
          /\ pc' = IF satellite /\ ~layer_ok THEN "rerun_satellite" ELSE "locate"
    /\ UNCHANGED <<written, probe, geocode_reruns, uploaded_file, landmarks, i, lat, lon, landmark_most_matched,
                   landmark_most_matched_score, lat_most_matched,
                   lon_most_matched, map_html, city, country, maps_url,
                   reviews, docs, summary_cache, shown, calls,
                   overall_score>>

\* With no landmark the page only says so (src/gui.py:311-315, 518-534).
NoLandmarks ==
    /\ pc = "settings"
    /\ landmarks = <<>>
    /\ shown' = shown \cup {"no_landmarks"}
    /\ pc' = "idle"
    /\ UNCHANGED <<written, probe, geocode_reruns, uploaded_file, landmarks, i, lat, lon, landmark_most_matched,
                   landmark_most_matched_score, lat_most_matched,
                   lon_most_matched, fm, map_html, satellite_mode, stream_mode, overall_score,
                   summary_stream, city, country, maps_url, reviews, docs,
                   summary_cache, calls>>

\* The reverse lookup made once for the city and once more for the country.
GetCityCountryTwice ==
    /\ pc = "locate"
    /\ \/ /\ geocode_reruns < MaxReruns
          /\ calls' = Append(calls, [service |-> "geocode", lat |-> lat,
                                     lon |-> lon, ok |-> FALSE])
          /\ geocode_reruns' = geocode_reruns + 1
          /\ pc' = "rerun_geocode"
          /\ UNCHANGED <<city, country>>
       \/ \E address \in Addresses :
             /\ calls' = Append(calls, [service |-> "geocode", lat |-> lat,
                                        lon |-> lon, ok |-> TRUE])
             /\ city' = get_location_details(address)[1]
             /\ country' = get_location_details(address)[2]
             /\ geocode_reruns' = 0
             /\ pc' = IF city = Unbound THEN "locate" ELSE "summary"
    /\ UNCHANGED <<written, probe, uploaded_file, landmarks, i, lat, lon,
                   landmark_most_matched, landmark_most_matched_score,
                   lat_most_matched, lon_most_matched, fm, map_html,
                   satellite_mode, stream_mode, overall_score, summary_stream, maps_url, reviews, docs,
                   summary_cache, shown>>

\* city, country = fm.get_city_country(lat, lon) (src/gui.py:316), through
\* FoliumMap.get_location_details: a failed lookup makes the script run again
\* (try_count is a local that starts at 0 on every call).
GetCityCountry ==
    /\ pc = "locate"
    /\ \/ /\ geocode_reruns < MaxReruns
          /\ calls' = Append(calls, [service |-> "geocode", lat |-> lat,
                                     lon |-> lon, ok |-> FALSE])
          /\ geocode_reruns' = geocode_reruns + 1
          /\ pc' = "rerun_geocode"
          /\ UNCHANGED <<city, country>>
       \/ \E address \in Addresses :
             /\ calls' = Append(calls, [service |-> "geocode", lat |-> lat,
                                        lon |-> lon, ok |-> TRUE])
             /\ city' = get_location_details(address)[1]
             /\ country' = get_location_details(address)[2]
             /\ geocode_reruns' = 0
             /\ pc' = "summary"
    /\ UNCHANGED <<written, probe, uploaded_file, landmarks, i, lat, lon,
                   landmark_most_matched, landmark_most_matched_score,
                   lat_most_matched, lon_most_matched, fm, map_html,
                   satellite_mode, stream_mode, overall_score, summary_stream, maps_url, reviews, docs,
                   summary_cache, shown>>

\* The prompt of the landmark summary (src/gui.py:328).
SummaryPrompt == <<"summary", landmark_most_matched, city, country>>

\* The summary branch taken as soon as the city is known.
SummaryCityOnly ==
    /\ pc = "summary"
    /\ IF city # ""
       THEN IF <<city, country>> # PREVIOUS_CITY_COUNTRY
            THEN IF summary_stream # None
                 THEN /\ \E ok \in BOOLEAN :
                            /\ calls' = Append(calls, [service |-> "stream_summary",
                                                       prompt |-> SummaryPrompt,
                                                       ok |-> ok])
                            /\ IF ok
                               THEN /\ pc' = "links"
                                    /\ shown' = shown \cup {"summary"}
                               ELSE Stop("0x018")
                      /\ UNCHANGED summary_cache
                 ELSE IF SummaryPrompt \in summary_cache
                 THEN /\ pc' = "links"
                      /\ shown' = shown \cup {"summary"}
                      /\ UNCHANGED <<calls, summary_cache>>
                 ELSE \E ok \in BOOLEAN :
                         /\ calls' = Append(calls, [service |-> "generate_summary",
                                                    prompt |-> SummaryPrompt,
                                                    ok |-> ok])
                         /\ IF ok
                            THEN /\ Cardinality(summary_cache) < MaxCached
                                 /\ pc' = "links"
                                 /\ shown' = shown \cup {"summary"}
                                 /\ summary_cache' = summary_cache \cup {SummaryPrompt}
                            ELSE /\ Stop("0x018")
                                 /\ UNCHANGED summary_cache
            ELSE /\ pc' = "links"
                 /\ UNCHANGED <<shown, calls, summary_cache>>
       ELSE /\ pc' = "links"
            /\ shown' = shown \cup {"unknown_location"}
            /\ UNCHANGED <<calls, summary_cache>>
    /\ UNCHANGED <<written, probe, geocode_reruns, uploaded_file, landmarks, i, lat, lon, landmark_most_matched,
                   landmark_most_matched_score, lat_most_matched,
                   lon_most_matched, fm, map_html, satellite_mode, stream_mode, overall_score,
                   summary_stream, city, country, maps_url, reviews, docs>>

\* The landmark summary (src/gui.py:317-365): streamed when the session flag
\* is set, otherwise through the memoized generate_summary; a failure of
\* either ends the pass (0x018).
Summary ==
    /\ pc = "summary"
    /\ IF city # "" /\ country # ""
       THEN IF <<city, country>> # PREVIOUS_CITY_COUNTRY
            THEN IF summary_stream # None
                 THEN /\ \E ok \in BOOLEAN :
                            /\ calls' = Append(calls, [service |-> "stream_summary",
                                                       prompt |-> SummaryPrompt,
                                                       ok |-> ok])
                            /\ IF ok
                               THEN /\ pc' = "links"
                                    /\ shown' = shown \cup {"summary"}
                               ELSE Stop("0x018")
                      /\ UNCHANGED summary_cache
                 ELSE IF SummaryPrompt \in summary_cache
                 THEN /\ pc' = "links"
                      /\ shown' = shown \cup {"summary"}
                      /\ UNCHANGED <<calls, summary_cache>>
                 ELSE \E ok \in BOOLEAN :
                         /\ calls' = Append(calls, [service |-> "generate_summary",
                                                    prompt |-> SummaryPrompt,
                                                    ok |-> ok])
                         /\ IF ok
                            THEN /\ Cardinality(summary_cache) < MaxCached
                                 /\ pc' = "links"
                                 /\ shown' = shown \cup {"summary"}
                                 /\ summary_cache' = summary_cache \cup {SummaryPrompt}
                            ELSE /\ Stop("0x018")
                                 /\ UNCHANGED summary_cache
            ELSE /\ pc' = "links"
                 /\ UNCHANGED <<shown, calls, summary_cache>>
       ELSE /\ pc' = "links"
            /\ shown' = shown \cup {"unknown_location"}
            /\ UNCHANGED <<calls, summary_cache>>
    /\ UNCHANGED <<written, probe, geocode_reruns, uploaded_file, landmarks, i, lat, lon, landmark_most_matched,
                   landmark_most_matched_score, lat_most_matched,
                   lon_most_matched, fm, map_html, satellite_mode, stream_mode, overall_score,
                   summary_stream, city, country, maps_url, reviews, docs>>

\* The deep links, the download button and the map (src/gui.py:367-419); a
\* failed Wikipedia lookup ends the pass (0x021).
Links ==
    /\ pc = "links"
    /\ lat' = lat_most_matched
    /\ lon' = lon_most_matched
    /\ maps_url' = <<lat_most_matched, lon_most_matched>>
    /\ \E ok \in BOOLEAN :
          /\ calls' = Append(calls, [service |-> "wikipedia",
                                     landmark |-> landmark_most_matched,
                                     ok |-> ok])
          /\ IF ok
             THEN /\ pc' = "reviews"
                  /\ UNCHANGED shown
             ELSE Stop("0x021")
    /\ UNCHANGED <<written, probe, geocode_reruns, uploaded_file, landmarks, i, landmark_most_matched,
                   landmark_most_matched_score, lat_most_matched,
                   lon_most_matched, fm, map_html, satellite_mode, stream_mode, overall_score,
                   summary_stream, city, country, reviews, docs,
                   summary_cache>>

\* reviews = get_review_for_landmark(lon, lat, 0.1, landmark_most_matched)
\* (src/gui.py:425-428)
FetchReviews ==
    /\ pc = "reviews"
    /\ \E stream_ok \in BOOLEAN :
          /\ calls' = Append(calls, [service |-> "get_reviews", long |-> lon,
                                     lat |-> lat, accuracy_range |-> ACCURACY_RANGE,
                                     landmark_name |-> landmark_most_matched,
                                     ok |-> stream_ok])
          /\ reviews' = get_reviews_for_landmark(docs, lon, lat, ACCURACY_RANGE,
                                                 landmark_most_matched, stream_ok)
          /\ shown' = IF stream_ok THEN shown ELSE shown \cup {"106"}
    /\ pc' = "form"
    /\ UNCHANGED <<written, probe, geocode_reruns, uploaded_file, landmarks, i, lat, lon, landmark_most_matched,
                   landmark_most_matched_score, lat_most_matched,
                   lon_most_matched, fm, map_html, satellite_mode, stream_mode, overall_score,
                   summary_stream, city, country, maps_url, docs,
                   summary_cache>>

\* A form that is taken as soon as one of its fields is filled.
FormComplete_any(username, review, score) ==
    username # "" \/ review # "" \/ score # 0

\* "if username and review and score" (src/gui.py:449)
FormComplete(username, review, score) ==
    username # "" /\ review # "" /\ score # 0

\* The review form (src/gui.py:430-460): a complete submission is written
\* and the script runs again; an incomplete one is refused.
ReviewForm ==
    /\ pc = "form"
    /\ \E submit_button \in BOOLEAN, username \in Usernames,
          review \in ReviewTexts, score \in FormScores :
          IF submit_button
          THEN IF FormComplete(username, review, score)
               THEN /\ Len(docs) < MaxSubmitted
                    /\ \E position \in 1..(Len(docs) + 1), write_ok \in BOOLEAN :
                          /\ docs' = create_review(docs, review, landmark_most_matched,
                                                   CoordText(lon, lat), score, username,
                                                   position, write_ok)
                          /\ written' =
                                IF write_ok
                                THEN written \cup
                                     {ReviewData(review, landmark_most_matched,
                                                 CoordText(lon, lat), score, username)}
                                ELSE written
                          /\ calls' = Append(calls,
                                [service |-> "create_review",
                                 data |-> ReviewData(review, landmark_most_matched,
                                                     CoordText(lon, lat), score, username),
                                 ok |-> write_ok])
                          /\ shown' = (IF write_ok THEN shown ELSE shown \cup {"104"})
                                      \cup {"review_added"}
                    /\ pc' = "rerun_submitted"
               ELSE /\ shown' = shown \cup {"fill_fields"}
                    /\ pc' = "show_reviews"
                    /\ UNCHANGED <<docs, calls, written>>
          ELSE /\ pc' = "show_reviews"
               /\ UNCHANGED <<docs, calls, shown, written>>
    /\ UNCHANGED <<probe, geocode_reruns, uploaded_file, landmarks, i, lat, lon, landmark_most_matched,
                   landmark_most_matched_score, lat_most_matched,
                   lon_most_matched, fm, map_html, satellite_mode, stream_mode, overall_score,
                   summary_stream, city, country, maps_url, reviews,
                   summary_cache>>

\* The prompt of the review summary (src/gui.py:493).
RECURSIVE ReviewTextsOf(_)
ReviewTextsOf(rs) == IF rs = <<>> THEN <<>>
                     ELSE <<Head(rs).Review>> \o ReviewTextsOf(Tail(rs))
ReviewPrompt == <<"reviews", landmark_most_matched, city, country,
                  ReviewTextsOf(reviews.list)>>

\* sum([r['Score10'] for r in reviews])
RECURSIVE SumScore10(_)
SumScore10(rs) == IF rs = <<>> THEN 0 ELSE Head(rs).Score10 + SumScore10(Tail(rs))

\* The average cut down to whole hundredths instead of rounded.
OverallScore_floor(rs) == (100 * SumScore10(rs)) \div Len(rs)

\* round(sum([r['Score10'] for r in reviews]) / len(reviews), 2), in
\* hundredths (src/gui.py:498): the nearest hundredth, the even one when the
\* quotient lies exactly between two.
OverallScore(rs) ==
    LET n == 100 * SumScore10(rs)
        q == n \div Len(rs)
        r == n % Len(rs)
    IN  IF 2 * r < Len(rs) THEN q
        ELSE IF 2 * r > Len(rs) THEN q + 1
        ELSE IF q % 2 = 0 THEN q ELSE q + 1

\* The review list and the review summary, then the footer
\* (src/gui.py:461-517, 528-534); summarize_review is memoized and its
\* failure ends the pass (0x018) before the overall score is written.
ShowReviews ==
    /\ pc = "show_reviews"
    /\ IF Truthy(reviews)
       THEN IF ReviewPrompt \in summary_cache
            THEN /\ shown' = shown \cup {"review_list", "review_summary"}
                 /\ overall_score' = OverallScore(reviews.list)
                 /\ pc' = "idle"
                 /\ UNCHANGED <<calls, summary_cache>>
            ELSE \E ok \in BOOLEAN :
                    /\ calls' = Append(calls, [service |-> "summarize_review",
                                               prompt |-> ReviewPrompt, ok |-> ok])
                    /\ IF ok
                       THEN /\ Cardinality(summary_cache) < MaxCached
                            /\ shown' = shown \cup {"review_list", "review_summary"}
                            /\ overall_score' = OverallScore(reviews.list)
                            /\ summary_cache' = summary_cache \cup {ReviewPrompt}
                            /\ pc' = "idle"
                       ELSE /\ shown' = shown \cup {"review_list", "0x018"}
                            /\ pc' = "stopped"
                            /\ UNCHANGED <<summary_cache, overall_score>>
       ELSE /\ shown' = shown \cup {"no_reviews_list", "no_reviews_summary"}
            /\ pc' = "idle"
            /\ UNCHANGED <<calls, summary_cache, overall_score>>
    /\ UNCHANGED <<written, probe, geocode_reruns, uploaded_file, landmarks, i, lat, lon, landmark_most_matched,
                   landmark_most_matched_score, lat_most_matched,
                   lon_most_matched, fm, map_html, satellite_mode, stream_mode,
                   summary_stream, city, country, maps_url, reviews, docs>>

Next ==
    \/ BeginPass
    \/ FindLandmark
    \/ LoopStep
    \/ ConvertMap
    \/ Settings
    \/ NoLandmarks
    \/ GetCityCountry
    \/ Summary
    \/ Links
    \/ FetchReviews
    \/ ReviewForm
    \/ ShowReviews

Spec == Init /\ [][Next]_vars

\* The pass up to the serialized map: recognition, the candidate loop and
\* the two map calls it makes per candidate.
NextLoop ==
    \/ BeginPass
    \/ FindLandmark
    \/ LoopStep
    \/ ConvertMap

SpecLoop == Init /\ [][NextLoop]_vars

\* ------------------------------------------- the review store, called alone
\* What test_firestore and other direct callers pass to the two public
\* methods of Firestore.  PlaceD lies exactly the accuracy range east of
\* PlaceA.
PlaceD == <<4900, 4010>>
\* The <<landmark, place>> a review is written for, and the landmarks, places
\* and ranges asked for.
Reviewed == {<<NameAB, PlaceA>>, <<NameABC, PlaceC>>, <<NameXY, PlaceB>>,
             <<NameXY, PlaceD>>, <<NameXY, PlaceC>>}
AskedPlaces == {PlaceA, PlaceC}
AskedNames == {NameAB, NameXY}
Radii == {ACCURACY_RANGE, 0 - ACCURACY_RANGE}

\* Firestore.create_new_review (src/firestore.py:88-117): a failure to reach
\* the collection or to write is reported and swallowed.
CreateNewReview ==
    /\ Len(docs) < MaxReviews
    /\ \E subject \in Reviewed,
          position \in 1..(Len(docs) + 1), write_ok \in BOOLEAN :
          LET landmark == subject[1]
              place == subject[2]
              coordinates == CoordText(place[2], place[1])
              data == ReviewData("nice", landmark, coordinates, SLIDER_DEFAULT, "user")
          IN  /\ docs' = create_review(docs, "nice", landmark, coordinates,
                                       SLIDER_DEFAULT, "user", position, write_ok)
              /\ written' = IF write_ok THEN written \cup {data} ELSE written
              /\ calls' = <<[service |-> "create_review", data |-> data,
                             ok |-> write_ok]>>
    /\ UNCHANGED <<pc, uploaded_file, summary_stream, summary_cache, probe,
                   geocode_reruns,
                   landmarks, i, lat, lon, landmark_most_matched,
                   landmark_most_matched_score, lat_most_matched,
                   lon_most_matched, fm, map_html, satellite_mode, stream_mode, overall_score, city,
                   country, maps_url, reviews, shown>>

\* Firestore.get_review_for_landmark (src/firestore.py:157-187)
GetReviewForLandmark ==
    /\ \E place \in AskedPlaces, accuracy_range \in Radii,
          landmark_name \in AskedNames, stream_ok \in BOOLEAN :
          /\ reviews' = get_reviews_for_landmark(docs, place[2], place[1],
                                                 accuracy_range, landmark_name,
                                                 stream_ok)
          /\ calls' = <<[service |-> "get_reviews", long |-> place[2],
                         lat |-> place[1], accuracy_range |-> accuracy_range,
                         landmark_name |-> landmark_name, ok |-> stream_ok]>>
    /\ UNCHANGED <<pc, uploaded_file, summary_stream, summary_cache, probe,
                   geocode_reruns,
                   docs, written, landmarks, i, lat, lon, landmark_most_matched,
                   landmark_most_matched_score, lat_most_matched,
                   lon_most_matched, fm, map_html, satellite_mode, stream_mode, overall_score, city,
                   country, maps_url, shown>>

NextStore ==
    \/ CreateNewReview
    \/ GetReviewForLandmark

SpecStore == Init /\ [][NextStore]_vars

\* ------------------------------------------- the bucketing, applied alone
\* Every confidence add_marker can pass on: 0.00 to 100.00 percent.
InitBucket ==
    /\ InitSession
    /\ probe \in {[confidence_score |-> s, color |-> Unbound, icon |-> Unbound,
                      markers |-> <<>>] : s \in 0..(100 * PerPercent)}

GetMarkerColor ==
    /\ probe.color = Unbound
    /\ probe' = [probe EXCEPT !.color = get_marker_color(probe.confidence_score)]
    /\ UNCHANGED <<pc, uploaded_file, summary_stream, docs, summary_cache,
                   written, geocode_reruns, passVars>>

GetMarkerIcon ==
    /\ probe.icon = Unbound
    /\ probe' = [probe EXCEPT !.icon =
                    get_marker_icon(probe.confidence_score, "pin", "star", "x")]
    /\ UNCHANGED <<pc, uploaded_file, summary_stream, docs, summary_cache,
                   written, geocode_reruns, passVars>>

\* add_marker on a fresh map, with the display string of that confidence.
AddMarker ==
    /\ probe.markers = <<>>
    /\ probe' = [probe EXCEPT !.markers =
                    add_marker(NewMap, PlaceA[1], PlaceA[2], NameAB,
                               ConfidenceText(probe.confidence_score)).markers]
    /\ UNCHANGED <<pc, uploaded_file, summary_stream, docs, summary_cache,
                   written, geocode_reruns, passVars>>

NextBucket ==
    \/ GetMarkerColor
    \/ GetMarkerIcon
    \/ AddMarker

SpecBucket == InitBucket /\ [][NextBucket]_vars

\* ------------------------------------------- the summary stream, alone
\* What the language model streams back: up to MaxFragments text fragments.
Fragments == {"The", " Maiden", " Tower"}
Streams == SeqsUpTo(Fragments, MaxFragments)

\* Everything a step of the stream leaves alone.
streamFrame == <<uploaded_file, summary_stream, docs, summary_cache, written,
                 geocode_reruns, landmarks, i, lat, lon, landmark_most_matched,
                 landmark_most_matched_score, lat_most_matched,
                 lon_most_matched, fm, map_html, satellite_mode, stream_mode, overall_score, city, country,
                 maps_url, reviews, calls>>

\* st.write_stream(self.summarizer.stream_summary(prompt)) about to be run
\* (src/gui.py:330-332): summary is what the service will send, received
\* counts the fragments taken from it, display is what write_stream has
\* been handed.
InitStream ==
    /\ InitSession
    /\ probe \in {[summary |-> f, received |-> 0, display |-> <<>>,
                    state |-> "called"] : f \in Streams}

\* The generator's first step: the client is built and the streamed
\* completion is asked for (src/ai_summary.py:110-123); an exception shows
\* 0x018 and stops the script.
StreamCreate ==
    /\ probe.state = "called"
    /\ \/ /\ probe' = [probe EXCEPT !.state = "streaming"]
          /\ UNCHANGED <<pc, shown>>
       \/ /\ probe' = [probe EXCEPT !.state = "failed"]
          /\ Stop("0x018")
    /\ UNCHANGED streamFrame

\* A loop step that takes a fragment from the service and loses the one
\* after it.
StreamNextLossy ==
    /\ probe.state = "streaming"
    /\ \/ /\ probe.received < Len(probe.summary)
          /\ probe' = [probe EXCEPT
                          !.received = IF @ + 2 <= Len(probe.summary)
                                       THEN @ + 2 ELSE Len(probe.summary),
                          !.display = Append(@, probe.summary[probe.received + 1])]
          /\ UNCHANGED <<pc, shown>>
       \/ /\ probe.received = Len(probe.summary)
          /\ probe' = [probe EXCEPT !.state = "complete"]
          /\ UNCHANGED <<pc, shown>>
       \/ /\ probe' = [probe EXCEPT !.state = "failed"]
          /\ Stop("0x018")
    /\ UNCHANGED streamFrame

\* One turn of "for s in summary: yield s.choices[0].text"
\* (src/ai_summary.py:124-126): the next fragment is taken from the service
\* and yielded to write_stream, or the service has no more and the
\* generator returns, or taking it raises (0x018, st.stop()).
StreamNext ==
    /\ probe.state = "streaming"
    /\ \/ /\ probe.received < Len(probe.summary)
          /\ probe' = [probe EXCEPT
                          !.received = @ + 1,
                          !.display = Append(@, probe.summary[probe.received + 1])]
          /\ UNCHANGED <<pc, shown>>
       \/ /\ probe.received = Len(probe.summary)
          /\ probe' = [probe EXCEPT !.state = "complete"]
          /\ UNCHANGED <<pc, shown>>
       \/ /\ probe' = [probe EXCEPT !.state = "failed"]
          /\ Stop("0x018")
    /\ UNCHANGED streamFrame

NextStream ==
    \/ StreamCreate
    \/ StreamNext

SpecStream == InitStream /\ [][NextStream]_vars

\* ------------------------------------------- the address shaping, alone
\* The address of a reverse lookup holds any of the seven keys the shaping
\* looks at, each with a value of its own, and a road.
AddressKeys == {"city", "town", "village", "suburb", "country", "state", "county"}
AddressValue ==
    ("city" :> "Baku") @@ ("town" :> "Khirdalan") @@ ("village" :> "Nardaran")
    @@ ("suburb" :> "Sabail") @@ ("country" :> "Azerbaijan")
    @@ ("state" :> "Absheron") @@ ("county" :> "Baku District")
    @@ ("road" :> "Neftchilar")
AllAddresses ==
    {[key \in present \cup {"road"} |-> AddressValue[key]] :
        present \in SUBSET AddressKeys}

InitAddress ==
    /\ InitSession
    /\ probe \in {[address |-> a, city |-> Unbound, country |-> Unbound] :
                      a \in AllAddresses}

\* city = self._get_detail_from_address(address, city_keys)
\* (src/mapping.py:169)
GetCity ==
    /\ probe.city = Unbound
    /\ probe' = [probe EXCEPT !.city = get_location_details(probe.address)[1]]
    /\ UNCHANGED <<pc, shown, streamFrame>>

\* country = self._get_detail_from_address(address, country_keys)
\* (src/mapping.py:170)
GetCountry ==
    /\ probe.country = Unbound
    /\ probe' = [probe EXCEPT !.country = get_location_details(probe.address)[2]]
    /\ UNCHANGED <<pc, shown, streamFrame>>

NextAddress ==
    \/ GetCity
    \/ GetCountry

SpecAddress == InitAddress /\ [][NextAddress]_vars

\* ------------------------------------------- the construction, alone
\* What st.secrets holds for each service: a service-account table or API
\* key that is as it should be, one that is missing (a key of it is), or
\* one that is there but malformed.
SecretStates == {"ok", "missing", "malformed"}

\* Credentials.__init__ (src/credentials.py:15-23): the two service-account
\* tables are read and parsed inside try blocks that show 0x001 and stop;
\* the API key is read by a bare st.secrets["TogetherAI"]["api_key"], which
\* raises when it is missing and takes whatever is there otherwise.
credentials_init(secrets) ==
    IF secrets.VertexAI # "ok" THEN "0x001"
    ELSE IF secrets.Firestore # "ok" THEN "0x001"
    ELSE IF secrets.TogetherAI = "missing" THEN "KeyError"
    ELSE "built"

\* Landmarker(debug) about to build its clients (src/gui.py:29-37).
InitConstruction ==
    /\ InitSession
    /\ probe \in {[secrets |-> [VertexAI |-> v, Firestore |-> f, TogetherAI |-> t],
                    debug |-> d, next |-> "gc", built |-> {}] :
                      v \in SecretStates, f \in SecretStates,
                      t \in SecretStates, d \in BOOLEAN}

\* The constructor of a client that derives from Credentials: the client is
\* built, or 0x001 is shown and the script stops, or the exception of the
\* bare read leaves the constructor and ends the script.
BuildClient(client, then) ==
    LET outcome == credentials_init(probe.secrets)
    IN  IF outcome = "built"
        THEN /\ probe' = [probe EXCEPT !.built = @ \cup {client}, !.next = then]
             /\ UNCHANGED <<pc, shown>>
        ELSE IF outcome = "0x001"
        THEN /\ probe' = [probe EXCEPT !.next = "none"]
             /\ Stop("0x001")
        ELSE /\ probe' = [probe EXCEPT !.next = "none"]
             /\ shown' = shown \cup {outcome}
             /\ pc' = "raised"

\* A mock client, which reads no secret.
BuildMock(then) ==
    /\ probe' = [probe EXCEPT !.next = then]
    /\ UNCHANGED <<pc, shown>>

\* self.gc = self.init_google_cloud_vision() (src/gui.py:33, 39-43)
InitGoogleCloudVision ==
    /\ probe.next = "gc"
    /\ IF probe.debug THEN BuildMock("summarizer")
       ELSE BuildClient("GoogleCloudVision", "summarizer")
    /\ UNCHANGED streamFrame

\* self.summarizer = self.init_TogetherAI() (src/gui.py:35, 45-49)
InitTogetherAI ==
    /\ probe.next = "summarizer"
    /\ IF probe.debug THEN BuildMock("firestore")
       ELSE BuildClient("AI_Summary", "firestore")
    /\ UNCHANGED streamFrame

\* self.firestore_connection = self.init_firestore() (src/gui.py:36, 54-55)
InitFirestore ==
    /\ probe.next = "firestore"
    /\ BuildClient("Firestore", "main")
    /\ UNCHANGED streamFrame

NextConstruction ==
    \/ InitGoogleCloudVision
    \/ InitTogetherAI
    \/ InitFirestore

SpecConstruction == InitConstruction /\ [][NextConstruction]_vars

\* ------------------------------------------------------------------ claims
\* The recognition call of this pass has returned its candidates.
Recognized ==
    /\ calls # <<>>
    /\ calls[1].service = "recognize"
    /\ pc # "recognize"
    /\ "0x004" \notin shown

\* The candidate loop of this pass has run through.
LoopDone == Recognized /\ (pc = "loop" => i > Len(landmarks))

\* The first candidate of greatest confidence.
FirstBest(ls) ==
    ls[CHOOSE k \in 1..Len(ls) :
          /\ \A j \in 1..Len(ls) : ls[j].score <= ls[k].score
          /\ \A j \in 1..(k - 1) : ls[j].score < ls[k].score]

\* C1: after the candidate loop the tracked most-matched name, score,
\* latitude and longitude are those of the candidate of greatest confidence,
\* the first such candidate on a tie.
C1_TrackedIsFirstBest ==
    (LoopDone /\ landmarks # <<>>) =>
        LET best == FirstBest(landmarks)
        IN  /\ landmark_most_matched = best.description
            /\ landmark_most_matched_score = best.score
            /\ lat_most_matched = best.locations[1][1]
            /\ lon_most_matched = best.locations[1][2]

\* C2: every reverse-geocoding call of a pass is made with the coordinate of
\* the most-matched candidate.
C2_GeocodeAtMostMatched ==
    Recognized =>
        \A k \in 1..Len(calls) :
            calls[k].service = "geocode" =>
                <<calls[k].lat, calls[k].lon>> = FirstBest(landmarks).locations[1]

\* C3: the review query, the coordinate text and landmark of a submitted
\* review, the maps link and the wiki lookup of a pass all use the
\* most-matched candidate's coordinate and name.
C3_ReviewsAndLinksAtMostMatched ==
    (Recognized /\ landmarks # <<>>) =>
        LET best == FirstBest(landmarks)
            lat_b == best.locations[1][1]
            lon_b == best.locations[1][2]
        IN  \A k \in 1..Len(calls) :
                /\ calls[k].service = "wikipedia" =>
                       /\ calls[k].landmark = best.description
                       /\ maps_url = <<lat_b, lon_b>>
                /\ calls[k].service = "get_reviews" =>
                       /\ calls[k].long = lon_b
                       /\ calls[k].lat = lat_b
                       /\ calls[k].landmark_name = best.description
                /\ calls[k].service = "create_review" =>
                       /\ calls[k].data.Coordinates = CoordText(lon_b, lat_b)
                       /\ calls[k].data.Landmark = best.description

\* C4: a confidence is red and "x" iff it is below 0.35, yellow and "pin" iff
\* it is at least 0.35 and below 0.65, green and "star" iff it is at least
\* 0.65.
C4_BucketBoundaries ==
    LET s == probe.confidence_score
    IN  /\ probe.color # Unbound =>
              /\ probe.color \in {"red", "yellow", "green"}
              /\ probe.color = "red" <=> s < 3500
              /\ probe.color = "yellow" <=> (3500 <= s /\ s < 6500)
              /\ probe.color = "green" <=> s >= 6500
        /\ probe.icon # Unbound =>
              /\ probe.icon \in {"x", "pin", "star"}
              /\ probe.icon = "x" <=> s < 3500
              /\ probe.icon = "pin" <=> (3500 <= s /\ s < 6500)
              /\ probe.icon = "star" <=> s >= 6500

\* The confidence 0.35 has been given its color and glyph: yellow and pin.
C4_Witness ==
    /\ probe.confidence_score = 3500
    /\ probe.color = "yellow"
    /\ probe.icon = "pin"

C6_CircleColorIsMarkerColor ==
    Recognized =>
        \A k \in 1..Len(fm.circles) :
            fm.circles[k].color = fm.markers[k].icon.color

\* The last call was a review query whose scan of the collection completed.
Asked ==
    /\ calls # <<>>
    /\ calls[1].service = "get_reviews"
    /\ calls[1].ok

\* The record is in the list the query returned.
Returned(d) == ~reviews.none /\ \E j \in 1..Len(reviews.list) : reviews.list[j] = d

\* The stored longitude and latitude of a record.
StoredLon(d) == FloatValue(Split(d.Coordinates, "/")[1])
StoredLat(d) == FloatValue(Split(d.Coordinates, "/")[2])

\* C7: a stored review is returned iff its coordinate is within the range of
\* the queried coordinate in longitude and in latitude (bounds included) or
\* its landmark name is at least 80 similar to the queried name.
C7_MatchIffBoxOrName ==
    Asked =>
        \A k \in 1..Len(docs) :
            Returned(docs[k]) <=>
                \/ /\ Abs(StoredLon(docs[k]) - calls[1].long) <= calls[1].accuracy_range
                   /\ Abs(StoredLat(docs[k]) - calls[1].lat) <= calls[1].accuracy_range
                \/ fuzz_ratio(docs[k].Landmark, calls[1].landmark_name) >= 80

\* Asked at (40.0, 49.0) with range 0.1 and a dissimilar name: the review at
\* (40.05, 49.03) is returned and the one at (41.5, 50.0) is not.
C7_Witness ==
    /\ Asked
    /\ calls[1].long = 4000 /\ calls[1].lat = 4900
    /\ calls[1].accuracy_range = 10
    /\ calls[1].landmark_name = NameAB
    /\ \E k \in 1..Len(docs) :
          /\ docs[k].Landmark = NameXY
          /\ docs[k].Coordinates = CoordText(4005, 4903)
          /\ Returned(docs[k])
    /\ \E k \in 1..Len(docs) :
          /\ docs[k].Landmark = NameXY
          /\ docs[k].Coordinates = CoordText(4150, 5000)
          /\ ~Returned(docs[k])

C9_Reflexive ==
    Asked =>
        \A k \in 1..Len(docs) :
            (/\ StoredLon(docs[k]) = calls[1].long
             /\ StoredLat(docs[k]) = calls[1].lat
             /\ docs[k].Landmark = calls[1].landmark_name)
            => Returned(docs[k])

\* A review with the coordinate and name of the query is returned under a
\* negative accuracy range.
C9_Witness ==
    /\ Asked
    /\ calls[1].accuracy_range < 0
    /\ \E k \in 1..Len(docs) :
          /\ StoredLon(docs[k]) = calls[1].long
          /\ StoredLat(docs[k]) = calls[1].lat
          /\ docs[k].Landmark = calls[1].landmark_name
          /\ Returned(docs[k])

\* C10: a pass whose recognition call returned no candidate makes no other
\* external call, and when it has run to its end it has shown the
\* "no landmarks detected" message.
C10_NoCandidatesNoCalls ==
    (Recognized /\ landmarks = <<>>) =>
        /\ \A k \in 1..Len(calls) : calls[k].service = "recognize"
        /\ pc = "idle" => "no_landmarks" \in shown

\* A pass without candidates has run to its end.
C10_Witness ==
    /\ Recognized
    /\ landmarks = <<>>
    /\ pc = "idle"
    /\ "no_landmarks" \in shown
    /\ Len(calls) = 1

\* C11: a reverse lookup that keeps failing restarts the script at most once;
\* after that the failure is terminal (0x007 and the pass stops).
C11_GeocodeRetryBounded ==
    /\ geocode_reruns <= 1
    /\ "0x007" \in shown => pc = "stopped"

\* The services whose failure is to end the request.
TerminalServices ==
    {"recognize", "geocode", "generate_summary", "stream_summary"}
ErrorCodes == {"0x004", "0x007", "0x017", "0x018"}

\* C12: a failed recognition, reverse-lookup or summary call is the last
\* call of its pass: an error is shown, the pass is stopped and nothing runs
\* the script again.
C12_ServiceFailureTerminal ==
    \A k \in 1..Len(calls) :
        (calls[k].service \in TerminalServices /\ ~calls[k].ok) =>
            /\ k = Len(calls)
            /\ pc = "stopped"
            /\ shown \cap ErrorCodes # {}

\* C13: the script is run again without an interaction only by the reverse
\* lookup's retry (and after a submitted review, which is not a failure):
\* never by the satellite layer, a summary or the review store failing.
C13_NoOtherAutomaticRerun ==
    /\ pc \in Reruns => pc \in {"rerun_geocode", "rerun_submitted"}
    /\ \A k \in 1..Len(calls) :
          (calls[k].service \in {"generate_summary", "stream_summary",
                                 "summarize_review", "get_reviews"}
           /\ ~calls[k].ok) => pc \notin Reruns \ {"rerun_submitted"}

\* The review query of this pass failed to read the collection.
ReadFailed ==
    \E k \in 1..Len(calls) : calls[k].service = "get_reviews" /\ ~calls[k].ok

\* C14: after a failed read of the review store the result is falsy, the
\* pass goes on (to the form, the review panels and its end), no
\* review-summary call is made, and at its end the pass has shown
\* "No reviews yet" in both review panels.
C14_ReadFailureNonFatal ==
    ReadFailed =>
        /\ ~Truthy(reviews)
        /\ "106" \in shown
        /\ pc \in {"form", "show_reviews", "idle", "rerun_submitted"}
        /\ \A k \in 1..Len(calls) : calls[k].service # "summarize_review"
        /\ pc = "idle" => {"no_reviews_list", "no_reviews_summary"} \subseteq shown

\* A pass whose read failed has run to its end over a collection holding a
\* review the query would have returned.
C14_Witness ==
    /\ ReadFailed
    /\ pc = "idle"
    /\ {"no_reviews_list", "no_reviews_summary"} \subseteq shown
    /\ \E k \in 1..Len(docs) :
          ReviewCondition(docs[k], lon, lat, ACCURACY_RANGE, landmark_most_matched)

\* The sequence without its p-th element.
RemoveAt(seq, p) == SubSeq(seq, 1, p - 1) \o SubSeq(seq, p + 1, Len(seq))

Rank(service) ==
    CASE service = "recognize" -> 1
      [] service = "geocode" -> 2
      [] service \in {"generate_summary", "stream_summary"} -> 3
      [] service = "get_reviews" -> 4
      [] OTHER -> 0

\* C16: the recognition, reverse-lookup, summary and review-query calls of
\* a pass are made in that order, each at most once, and each only after
\* the ones before it have returned.
C16_CallOrder ==
    \A k \in 1..Len(calls) :
        Rank(calls[k].service) > 0 =>
            /\ \A j \in 1..(k - 1) :
                  Rank(calls[j].service) > 0 =>
                      /\ Rank(calls[j].service) < Rank(calls[k].service)
                      /\ calls[j].ok
            /\ Rank(calls[k].service) > 1 =>
                  \E j \in 1..(k - 1) : calls[j].service = "recognize"
            /\ Rank(calls[k].service) > 2 =>
                  \E j \in 1..(k - 1) : calls[j].service = "geocode"

\* A pass with a resolved location has made the four calls, in order.
C16_Witness ==
    /\ pc = "form"
    /\ city # "" /\ country # ""
    /\ \E a, b, c, d \in 1..Len(calls) :
          /\ a < b /\ b < c /\ c < d
          /\ calls[a].service = "recognize"
          /\ calls[b].service = "geocode"
          /\ calls[c].service = "stream_summary"
          /\ calls[d].service = "get_reviews"

\* C17: the display has been handed exactly the fragments received so far,
\* in the order received and each once, none is held back; a stream that
\* has started can always take its next step, and it ends either complete,
\* with every fragment displayed, or failed, with 0x018 shown and the pass
\* stopped.
C17_StreamInOrderToCompletion ==
    /\ probe.display = SubSeq(probe.summary, 1, probe.received)
    /\ Len(probe.display) = probe.received
    /\ probe.state \in {"called", "streaming", "complete", "failed"}
    /\ probe.state = "streaming" => ENABLED StreamNext
    /\ probe.state = "complete" => (probe.display = probe.summary /\ pc # "stopped")
    /\ probe.state = "failed" <=> (pc = "stopped" /\ "0x018" \in shown)

\* A stream of three fragments, one of them twice, has been displayed whole.
C17_Witness ==
    /\ probe.state = "complete"
    /\ probe.summary = <<"The", " Maiden", "The">>
    /\ probe.display = probe.summary

\* C18: when a secret is missing or malformed, no client that needs the
\* credentials is built, main is not reached, and the first constructor that
\* reads the secrets shows 0x001 and stops the pass.
C18_CredentialErrorStops ==
    (\E service \in DOMAIN probe.secrets : probe.secrets[service] # "ok") =>
        /\ probe.built = {}
        /\ probe.next # "main"
        /\ probe.next = "none" => (pc = "stopped" /\ "0x001" \in shown)

\* A record the form may write: a user, a text and a score of 1 to 10.
WellFormed(d) ==
    /\ d.Username # ""
    /\ d.Review # ""
    /\ d.Score10 \in 1..10

\* C19: the collection changes only by the review form writing a record
\* with a non-empty username, a non-empty text and a score of 1 to 10; a
\* submission refused for an empty field writes nothing and leaves the
\* collection as it was.
C19_OnlyCompleteReviewsWritten ==
    [][/\ docs' # docs =>
             /\ pc = "form"
             /\ "review_added" \in shown'
             /\ calls'[Len(calls')].service = "create_review"
             /\ WellFormed(calls'[Len(calls')].data)
             /\ \E k \in 1..Len(docs') : docs'[k] = calls'[Len(calls')].data
       /\ \A k \in 1..Len(calls') :
             calls'[k].service = "create_review" => WellFormed(calls'[k].data)
       /\ \A k \in 1..Len(docs') : WellFormed(docs'[k])
       /\ ("fill_fields" \in shown' /\ "fill_fields" \notin shown) =>
             /\ docs' = docs
             /\ calls' = calls]_vars

\* A submission with an empty field has been refused in a pass over a
\* collection that holds a review written with the highest score.
C19_Witness ==
    /\ pc = "show_reviews"
    /\ "fill_fields" \in shown
    /\ Len(docs) = 1
    /\ docs[1].Score10 = 10
    /\ \A k \in 1..Len(calls) : calls[k].service # "create_review"

\* C20: city is the value of the first key the address holds among city,
\* town, village, suburb, country the value of the first among country,
\* state, county, and the empty string when it holds none of them.
C20_FirstPresentKey ==
    LET a == probe.address
        Has(key) == key \in DOMAIN a
    IN  /\ probe.city # Unbound =>
              probe.city = IF Has("city") THEN a["city"]
                           ELSE IF Has("town") THEN a["town"]
                           ELSE IF Has("village") THEN a["village"]
                           ELSE IF Has("suburb") THEN a["suburb"]
                           ELSE ""
        /\ probe.country # Unbound =>
              probe.country = IF Has("country") THEN a["country"]
                              ELSE IF Has("state") THEN a["state"]
                              ELSE IF Has("county") THEN a["county"]
                              ELSE ""

\* An address with a town, a suburb, a state and a county but neither city
\* nor country has been shaped into the town and the state.
C20_Witness ==
    /\ DOMAIN probe.address = {"town", "suburb", "state", "county", "road"}
    /\ probe.city = "Khirdalan"
    /\ probe.country = "Absheron"

\* ------------------------------------------ the memoized summaries, alone
\* How many requests for a summary are followed.
MaxRequests == 3

\* The two functions under @st.cache_data (src/ai_summary.py:84, 140), the
\* prompts they are asked with and the texts the service may answer with.
\* The two prompt templates differ (src/gui.py:328, 493), so no prompt is
\* handed to both functions.
MemoFunctions == {"generate_summary", "summarize_review"}
MemoPrompts(function) == IF function = "generate_summary" THEN {"tower, Baku", "gate, Ganja"} ELSE {"reviews of tower", "reviews of gate"}
Completions == {"text one", "text two"}

\* A cache that looks an entry up by the function alone.
cache_data_unkeyed(cache, function, prompt, ok, text) ==
    IF \E e \in cache : e.function = function
    THEN [cache |-> cache, called |-> FALSE, ok |-> TRUE,
          value |-> (CHOOSE e \in cache : e.function = function).value]
    ELSE IF ok
    THEN [cache |-> cache \cup {[function |-> function, prompt |-> prompt,
                                 value |-> text]},
          called |-> TRUE, ok |-> TRUE, value |-> text]
    ELSE [cache |-> cache, called |-> TRUE, ok |-> FALSE, value |-> None]

\* @st.cache_data(show_spinner=False) around generate_summary(_self, prompt)
\* and summarize_review(_self, review) (src/ai_summary.py:84-107, 140-169):
\* the entry is looked up by function and prompt (_self is left out of the
\* key); on a miss the body runs, which asks the service once, and its
\* return value is stored; a body that ends in st.stop() returns nothing and
\* nothing is stored.
cache_data(cache, function, prompt, ok, text) ==
    IF \E e \in cache : e.function = function /\ e.prompt = prompt
    THEN [cache |-> cache, called |-> FALSE, ok |-> TRUE,
          value |-> (CHOOSE e \in cache :
                        e.function = function /\ e.prompt = prompt).value]
    ELSE IF ok
    THEN [cache |-> cache \cup {[function |-> function, prompt |-> prompt,
                                 value |-> text]},
          called |-> TRUE, ok |-> TRUE, value |-> text]
    ELSE [cache |-> cache, called |-> TRUE, ok |-> FALSE, value |-> None]

\* No request made yet, nothing cached.
InitMemo ==
    /\ InitSession
    /\ probe = [cache |-> {}, log |-> <<>>]

\* One request to a memoized function in some pass: the log keeps what was
\* asked, whether the service was called and what came back; a failed call
\* shows 0x018 and stops the script.
MemoRequest(function) ==
    /\ Len(probe.log) < MaxRequests
    /\ \E prompt \in MemoPrompts(function), ok \in BOOLEAN, text \in Completions :
          LET r == cache_data(probe.cache, function, prompt, ok, text)
          IN  /\ probe' = [cache |-> r.cache,
                           log |-> Append(probe.log,
                                      [function |-> function, prompt |-> prompt,
                                       called |-> r.called, ok |-> r.ok,
                                       value |-> r.value])]
              /\ IF r.ok THEN UNCHANGED <<pc, shown>> ELSE Stop("0x018")
    /\ UNCHANGED streamFrame

GenerateSummary == MemoRequest("generate_summary")
SummarizeReview == MemoRequest("summarize_review")

NextMemo ==
    \/ GenerateSummary
    \/ SummarizeReview

SpecMemo == InitMemo /\ [][NextMemo]_vars

\* Request j and request k of the log ask the same function with the same
\* prompt.
SameRequest(j, k) ==
    /\ probe.log[j].function = probe.log[k].function
    /\ probe.log[j].prompt = probe.log[k].prompt

\* C21: the non-streaming summaries are memoized by prompt: once a call for
\* a prompt has succeeded, every later request with that prompt makes no
\* call and returns the text of that first successful call; a request is
\* answered without a call only from such an earlier success; and the cache
\* holds exactly the answers of the successful calls, so a failed call
\* leaves nothing in it.
C21_MemoizedByPrompt ==
    /\ \A k \in 1..Len(probe.log) :
          /\ \A j \in 1..(k - 1) :
                (SameRequest(j, k) /\ probe.log[j].called /\ probe.log[j].ok)
                   => /\ ~probe.log[k].called
                      /\ probe.log[k].value = probe.log[j].value
          /\ ~probe.log[k].called
                => \E j \in 1..(k - 1) :
                      /\ SameRequest(j, k)
                      /\ probe.log[j].called /\ probe.log[j].ok
                      /\ probe.log[k].value = probe.log[j].value
    /\ probe.cache = {[function |-> probe.log[k].function,
                       prompt |-> probe.log[k].prompt,
                       value |-> probe.log[k].value] :
                         k \in {n \in 1..Len(probe.log) :
                                   probe.log[n].called /\ probe.log[n].ok}}

\* A call that failed, the same prompt asked again and answered by the
\* service, and a third request with it served from the cache.
C21_Witness ==
    /\ Len(probe.log) = 3
    /\ SameRequest(1, 2) /\ SameRequest(2, 3)
    /\ probe.log[1].called /\ ~probe.log[1].ok
    /\ probe.log[2].called /\ probe.log[2].ok
    /\ ~probe.log[3].called
    /\ probe.log[3].value = probe.log[2].value

\* The pass has gone through the landmark summary with a location that asks
\* for one (src/gui.py:316-318).
SummaryDue ==
    /\ city # Unbound
    /\ pc # "summary"
    /\ city # "" /\ country # ""
    /\ <<city, country>> # PREVIOUS_CITY_COUNTRY

\* The calls of this pass to the given service.
CallsTo(service) == {k \in 1..Len(calls) : calls[k].service = service}

\* C22: the way the landmark summary is produced is decided by the "Stream
\* Summary" toggle of the same pass: with the toggle on the pass makes one
\* streaming call, whatever the cache holds, and no memoized request; with
\* the toggle off it makes no streaming call and the summary comes from the
\* memoized function (a call, or the cached text).  The flag an earlier pass
\* left in the session never decides.
C22_ModeFollowsToggle ==
    SummaryDue =>
        IF stream_mode
        THEN /\ Cardinality(CallsTo("stream_summary")) = 1
             /\ CallsTo("generate_summary") = {}
        ELSE /\ CallsTo("stream_summary") = {}
             /\ \/ Cardinality(CallsTo("generate_summary")) = 1
                \/ SummaryPrompt \in summary_cache

\* A pass with the toggle on that streams a summary whose prompt the cache
\* holds from an earlier pass with the toggle off.
C22_Witness ==
    /\ SummaryDue
    /\ stream_mode = TRUE
    /\ SummaryPrompt \in summary_cache
    /\ CallsTo("stream_summary") # {}

\* C23: when the loop over the n candidates has run through, the map holds
\* exactly n markers and n circles, in candidate order, the k-th marker and
\* the k-th circle at the first coordinate of the k-th candidate; a further
\* coordinate of a candidate produces no marker.  While the loop runs the
\* same holds of the candidates already visited.
C23_OneMarkerAndCirclePerCandidate ==
    (Recognized /\ pc # "stopped") =>
        /\ Len(fm.markers) = i - 1
        /\ Len(fm.circles) = i - 1
        /\ LoopDone => Len(fm.markers) = Len(landmarks)
        /\ \A k \in 1..(i - 1) :
              /\ fm.markers[k].location = landmarks[k].locations[1]
              /\ fm.circles[k].location = landmarks[k].locations[1]
              /\ fm.markers[k].popup[1] = landmarks[k].description

\* The loop has run through two candidates, one of them with a second
\* coordinate.
C23_Witness ==
    /\ LoopDone
    /\ pc = "settings"
    /\ Len(landmarks) = 2
    /\ \E k \in 1..2 : Len(landmarks[k].locations) > 1
    /\ Len(fm.markers) = 2

\* The pass has offered the "Download Map" button (src/gui.py:390-404).
DownloadOffered ==
    /\ Recognized
    /\ maps_url # Unbound
    /\ "0x021" \notin shown

\* C24: the map offered for download was serialized after the last marker
\* and circle and before the satellite tile layer: it holds every marker and
\* circle of the displayed map, one per candidate, and never the satellite
\* layer, whether the toggle is on or off.
C24_DownloadIsPlainMap ==
    DownloadOffered =>
        /\ map_html.markers = fm.markers
        /\ map_html.circles = fm.circles
        /\ Len(map_html.markers) = Len(landmarks)
        /\ \A k \in 1..Len(map_html.layers) :
              map_html.layers[k] # "Esri Satellite"

\* The download is offered in a pass whose displayed map carries the
\* satellite layer over two markers.
C24_Witness ==
    /\ DownloadOffered
    /\ satellite_mode = TRUE
    /\ fm.layers = <<"Esri Satellite">>
    /\ Len(map_html.markers) = 2

\* C25: "Review added successfully" is shown only when the record was
\* persisted: a pass that shows it has made a write to the store that
\* succeeded, and shows no write failure (104).
C25_SuccessOnlyWhenPersisted ==
    "review_added" \in shown =>
        /\ \E k \in 1..Len(calls) :
              /\ calls[k].service = "create_review"
              /\ calls[k].ok
              /\ calls[k].data \in written
        /\ "104" \notin shown

\* C26: the map's own tracker, kept by add_marker from the confidence it
\* parses out of the display text, always names the coordinate of the
\* controller's most-matched candidate, which is kept from the raw score.
C26_MapTrackerIsControllerTracker ==
    (Recognized /\ pc # "stopped") =>
        /\ fm.max_score_location = <<lat_most_matched, lon_most_matched>>
        /\ fm.location = fm.max_score_location

\* ------------------------------ the review query over any stored coordinates
\* create_new_review takes the coordinates as the caller gives them and
\* stores them unexamined (src/firestore.py:88-117, 138-144): a pair, a pair
\* elsewhere, one number, one number and an empty second piece, one number
\* and a word, a word.
ScanCoordinates ==
    {CoordText(PlaceA[2], PlaceA[1]),
     CoordText(PlaceC[2], PlaceC[1]),
     NumText(PlaceC[2]),
     NumText(PlaceA[2]) \o <<"/">>,
     NumText(PlaceC[2]) \o <<"/", "n">>,
     <<"n">>}

\* Firestore.create_new_review called with any coordinates text.
CreateNewReviewAnyCoordinates ==
    /\ Len(docs) < MaxReviews
    /\ \E landmark \in AskedNames, coordinates \in ScanCoordinates,
          position \in 1..(Len(docs) + 1), write_ok \in BOOLEAN :
          LET data == ReviewData("nice", landmark, coordinates, SLIDER_DEFAULT, "user")
          IN  /\ docs' = create_review(docs, "nice", landmark, coordinates,
                                       SLIDER_DEFAULT, "user", position, write_ok)
              /\ written' = IF write_ok THEN written \cup {data} ELSE written
              /\ calls' = <<[service |-> "create_review", data |-> data,
                             ok |-> write_ok]>>
    /\ UNCHANGED <<pc, uploaded_file, summary_stream, summary_cache, probe,
                   geocode_reruns,
                   landmarks, i, lat, lon, landmark_most_matched,
                   landmark_most_matched_score, lat_most_matched,
                   lon_most_matched, fm, map_html, satellite_mode, stream_mode, overall_score, city,
                   country, maps_url, reviews, shown>>

NextScan ==
    \/ CreateNewReviewAnyCoordinates
    \/ GetReviewForLandmark

SpecScan == Init /\ [][NextScan]_vars

\* The last call was a review query.
Queried ==
    /\ calls # <<>>
    /\ calls[1].service = "get_reviews"

\* The Coordinates of the record split on "/" into two numbers.
TwoNumbers(d) ==
    LET pieces == Split(d.Coordinates, "/")
    IN  /\ Len(pieces) = 2
        /\ FloatOk(pieces[1])
        /\ FloatOk(pieces[2])

\* The record matches the query of calls[1]: by its place or by its name.
MatchesQuery(d) ==
    \/ /\ TwoNumbers(d)
       /\ Abs(StoredLon(d) - calls[1].long) <= calls[1].accuracy_range
       /\ Abs(StoredLat(d) - calls[1].lat) <= calls[1].accuracy_range
    \/ fuzz_ratio(d.Landmark, calls[1].landmark_name) >= FUZZ_THRESHOLD

\* C27: get_review_for_landmark is all-or-nothing: it returns None or a
\* non-empty list, the list holds exactly the matching records in scan
\* order, and whenever a scanned record has Coordinates that do not split on
\* "/" into two numbers the result is None, whatever else matches.
C27_AllOrNothing ==
    Queried =>
        /\ reviews.none \/ reviews.list # <<>>
        /\ ~reviews.none => reviews.list = SelectSeq(docs, MatchesQuery)
        /\ (\E k \in 1..Len(docs) : ~TwoNumbers(docs[k])) => reviews.none

\* -------------------------------------- the review panels over a filled store
\* How many reviews the collection holds when the session begins.
MaxStored == 3

\* The collection outlives the session: the reviews earlier sessions left in
\* it, written through the form (src/gui.py:449-456) for the landmark of the
\* pass at its place and for another landmark elsewhere, with the lowest,
\* the default and the highest score of the slider.
StoredScores == {SLIDER_MIN, SLIDER_DEFAULT, SLIDER_MAX}
StoredReviews ==
    {ReviewData("nice", NameAB, CoordText(PlaceA[2], PlaceA[1]), s, "user") : s \in StoredScores}
    \cup {ReviewData("nice", NameXY, CoordText(PlaceC[2], PlaceC[1]), s, "user") : s \in StoredScores}

\* The candidate the pass has recognized.
PanelLandmark == Landmark(NameAB, 90 * PerPercent * Fine, <<PlaceA, PlaceC>>)

\* A pass that has recognized one landmark at PlaceA, streamed its summary
\* for Baku, Azerbaijan and rendered the links and the map
\* (src/gui.py:219-419), and is about to ask for the reviews.
PanelPass ==
    /\ pc = "reviews"
    /\ uploaded_file = TRUE
    /\ landmarks = <<PanelLandmark>>
    /\ i = 2
    /\ lat = PlaceA[1]
    /\ lon = PlaceA[2]
    /\ landmark_most_matched = NameAB
    /\ landmark_most_matched_score = PanelLandmark.score
    /\ lat_most_matched = PlaceA[1]
    /\ lon_most_matched = PlaceA[2]
    /\ fm = add_heatmap(add_marker(NewMap, PlaceA[1], PlaceA[2], NameAB,
                                   ConfidenceText(90 * PerPercent)),
                        PlaceA[1], PlaceA[2], PanelLandmark.score)
    /\ map_html = fm
    /\ satellite_mode = FALSE
    /\ stream_mode = TRUE
    /\ summary_stream = PyTrue
    /\ overall_score = Unbound
    /\ city = "Baku"
    /\ country = "Azerbaijan"
    /\ maps_url = PlaceA
    /\ reviews = Unbound
    /\ summary_cache = {}
    /\ shown = {"summary"}
    /\ calls = <<[service |-> "recognize", ok |-> TRUE],
                 [service |-> "geocode", lat |-> PlaceA[1], lon |-> PlaceA[2],
                  ok |-> TRUE],
                 [service |-> "stream_summary",
                  prompt |-> <<"summary", NameAB, "Baku", "Azerbaijan">>,
                  ok |-> TRUE],
                 [service |-> "wikipedia", landmark |-> NameAB, ok |-> TRUE]>>
    /\ written = {}
    /\ geocode_reruns = 0
    /\ probe = Unbound

InitPanel ==
    /\ PanelPass
    /\ docs \in SeqsUpTo(StoredReviews, MaxStored)

\* The rest of the pass: the review query, the form and the two panels.
NextPanel ==
    \/ FetchReviews
    \/ ReviewForm
    \/ ShowReviews

SpecPanel == InitPanel /\ [][NextPanel]_vars

\* The pass has asked the store for the reviews.
Fetched == CallsTo("get_reviews") # {}

\* C28: the review-summary call is made and the "Overall Score" is computed
\* only when at least one review matched: with an empty or failed result
\* the pass makes no review-summary call, shows no score and divides by
\* nothing; with k >= 1 matched reviews the score shown is the sum of their
\* Score10 divided by k, to the nearest hundredth as the page writes it.
C28_AverageOnlyOverMatches ==
    /\ (CallsTo("summarize_review") # {} \/ "review_summary" \in shown)
          => (Fetched /\ Truthy(reviews))
    /\ "review_summary" \in shown =>
          LET k == Len(reviews.list)
          IN  /\ k >= 1
              /\ 2 * Abs(overall_score * k - 100 * SumScore10(reviews.list)) <= k
    /\ (Fetched /\ ~Truthy(reviews) /\ pc = "idle")
          => "no_reviews_summary" \in shown

\* Three reviews matched, their scores 1, 1 and 5: the page shows 2.33.
C28_Witness ==
    /\ Fetched
    /\ Truthy(reviews)
    /\ "review_summary" \in shown
    /\ Len(reviews.list) = 3
    /\ SumScore10(reviews.list) = 7
    /\ overall_score = 233
    /\ Len(docs) = 3

\* ------------------------------------------------ the rating line, alone
\* How many reviews the rendered list holds.
MaxRated == 2

\* The label with the bands cut above their lower ends.
rating_label_above(score10) ==
    IF score10 > 9 THEN "Excellent"
    ELSE IF score10 > 7 THEN "Good"
    ELSE IF score10 > 5 THEN "Average"
    ELSE IF score10 > 3 THEN "Poor"
    ELSE "Terrible"

\* The label of the rating line (src/gui.py:481, first expression).
rating_label(score10) ==
    IF score10 >= 9 THEN "Excellent"
    ELSE IF score10 >= 7 THEN "Good"
    ELSE IF score10 >= 5 THEN "Average"
    ELSE IF score10 >= 3 THEN "Poor"
    ELSE "Terrible"

\* The number of stars of the rating line (src/gui.py:481, second
\* expression).
rating_stars(score10) ==
    IF score10 <= 2 THEN 1
    ELSE IF score10 <= 4 THEN 2
    ELSE IF score10 <= 6 THEN 3
    ELSE IF score10 <= 8 THEN 4
    ELSE 5

\* The scores the slider of the form stores (src/gui.py:437-444).
SliderScores == SLIDER_MIN..SLIDER_MAX

\* The lists of matched reviews the panel may be given.
RatedLists ==
    SeqsUpTo({ReviewData("nice", NameAB, CoordText(PlaceA[2], PlaceA[1]), s, "user") :
                 s \in SliderScores}, MaxRated)

\* The review list about to be rendered: nothing written yet.
InitRating ==
    /\ InitSession
    /\ probe \in {[reviews |-> rs, rendered |-> <<>>] : rs \in RatedLists}

\* One turn of "for review in reviews" (src/gui.py:465-484): the rating line
\* of the next review is written.
RenderReview ==
    /\ Len(probe.rendered) < Len(probe.reviews)
    /\ LET review == probe.reviews[Len(probe.rendered) + 1]
       IN  probe' = [probe EXCEPT
                        !.rendered = Append(@, [label |-> rating_label(review.Score10),
                                                stars |-> rating_stars(review.Score10)])]
    /\ UNCHANGED <<pc, shown>>
    /\ UNCHANGED streamFrame

NextRating == RenderReview

SpecRating == InitRating /\ [][NextRating]_vars

\* The label that belongs to a number of stars.
StarLabels == <<"Terrible", "Poor", "Average", "Good", "Excellent">>

\* C29: for every stored score from 1 to 10 the rating line shows
\* ceil(score / 2) stars and the label Terrible, Poor, Average, Good or
\* Excellent for 1, 2, 3, 4 or 5 stars: label and stars never come from
\* different bands.
C29_StarsAndLabelAgree ==
    \A k \in 1..Len(probe.rendered) :
        LET score10 == probe.reviews[k].Score10
        IN  /\ probe.rendered[k].stars = (score10 + 1) \div 2
            /\ probe.rendered[k].label = StarLabels[probe.rendered[k].stars]

\* Two reviews on either side of a band boundary have been rendered: score 6
\* as Average with three stars, score 7 as Good with four.
C29_Witness ==
    /\ Len(probe.rendered) = 2
    /\ probe.reviews[1].Score10 = 6
    /\ probe.reviews[2].Score10 = 7
    /\ probe.rendered = <<[label |-> "Average", stars |-> 3],
                          [label |-> "Good", stars |-> 4]>>

\* The pass has gone through the landmark summary branch.
Located == city # Unbound /\ pc # "summary"

\* The calls of this pass for a landmark summary, memoized or streamed.
SummaryCalls == CallsTo("generate_summary") \cup CallsTo("stream_summary")

\* C30: when the reverse lookup yields an empty city or an empty country the
\* pass shows "Unknown Location" and asks for no landmark summary, memoized
\* or streamed, and still goes on to the links, the map and the review
\* query: it is stopped by nothing but a later failure.  A landmark summary
\* is asked for only in passes where city and country are both non-empty.
C30_UnknownLocationSkipsSummary ==
    /\ (Located /\ (city = "" \/ country = "")) =>
          /\ "unknown_location" \in shown
          /\ "summary" \notin shown
          /\ SummaryCalls = {}
          /\ pc = "stopped" => Last(calls).service \in {"wikipedia", "summarize_review"}
          /\ pc \in {"form", "show_reviews", "idle", "rerun_submitted"} =>
                /\ maps_url = <<lat_most_matched, lon_most_matched>>
                /\ CallsTo("wikipedia") # {}
                /\ CallsTo("get_reviews") # {}
    /\ SummaryCalls # {} => (city # Unbound /\ city # "" /\ country # "")
    /\ (Located /\ city # "" /\ country # "") => "unknown_location" \notin shown

\* A pass at a place with a country and no city has ended after showing
\* "Unknown Location", the links and the review panels.
C30_Witness ==
    /\ Located
    /\ city = "" /\ country = "Azerbaijan"
    /\ pc = "idle"
    /\ "unknown_location" \in shown
    /\ CallsTo("get_reviews") # {}
    /\ SummaryCalls = {}

====
